---- MODULE Spec2Model ----
(***************************************************************************)
(* Model of src/app.py: a Flask webhook that verifies a shared secret,     *)
(* asks an LLM for a page (round 1) or for a modification (round > 1),     *)
(* publishes to a hosted repository and notifies an evaluation server.     *)
(*                                                                         *)
(* Python strings that the code only compares or tests for truth are TLA+  *)
(* strings; None is the reserved string None.  Texts the code splits,      *)
(* strips and rewrites are sequences of tokens; the None of those is the   *)
(* reserved sequence NoneT.                                                *)
(***************************************************************************)
EXTENDS Integers, Sequences, FiniteSets, TLC

(* ---------------------------------------------------------------------- *)
(* Bounds and input sets                                                   *)
(* ---------------------------------------------------------------------- *)
MaxRound == 2
MaxCommits == 5
MaxExternalWrites == 1

Procs == {1, 2}
None == "None"
NoneT == <<"None">>

Secrets == {"", "s1", "bad"}
ConfiguredSecrets == {None, "", "s1"}
Briefs == {"", "b1", "b2"}
Tasks == {"", "t1"}
RepoNames == {"t1"}
Rounds == 1..MaxRound
EvalUrls == {"", "e1"}
Keys == {"secret", "brief", "task", "round", "evaluation_url"}

\* A JSON body: the keys that are present and their values (an absent key
\* holds a fixed filler that Get never returns).
Bodies ==
    { [keys |-> ks,
       secret |-> IF "secret" \in ks THEN s ELSE None,
       brief |-> IF "brief" \in ks THEN b ELSE None,
       task |-> IF "task" \in ks THEN t ELSE None,
       round |-> IF "round" \in ks THEN r ELSE 1,
       evaluation_url |-> IF "evaluation_url" \in ks THEN e ELSE None] :
        ks \in SUBSET Keys, s \in Secrets, b \in Briefs, t \in Tasks,
        r \in Rounds, e \in EvalUrls }

NoJson == [keys |-> {"<no json>"}, secret |-> None, brief |-> None, task |-> None,
           round |-> 1, evaluation_url |-> None]

Requests == Bodies \cup {NoJson}

\* dict.get(key): the value, or None when the key is absent
Get(d, k) == IF k \in d.keys THEN d[k] ELSE None

\* Python truth of a str-or-None value
Truthy(v) == v # None /\ v # ""

(* ---------------------------------------------------------------------- *)
(* Texts: the LLM's answer as a sequence of tokens.  "x" is ordinary text, *)
(* " " whitespace, "F" the fence ```, "html" and "markdown" the words that *)
(* follow a fence, "SEP" the literal <<FILE_SEPARATOR>>.                   *)
(* ---------------------------------------------------------------------- *)
SEP == "SEP"

\* The answers the LLM is let to give in the request model: one of each
\* shape the code distinguishes.
LlmTexts ==
    { <<>>,
      <<" ">>,
      <<"x">>,
      <<"F", "html", "F">>,
      <<"F", "html", "x", "F">>,
      <<"x", SEP, "x">>,
      <<" ", "x", SEP, "F", "markdown", "x", "F", " ">>,
      <<SEP, "x">>,
      <<"x", SEP>>,
      <<" ", SEP, "x">>,
      <<"x", SEP, "F", "F">>,
      <<"x", SEP, "x", SEP, "x">> }

\* The LLM call: it raises, or it returns a text
LlmOutcomes == {NoneT} \cup LlmTexts

RECURSIVE LStrip(_)
LStrip(s) == IF s # <<>> /\ Head(s) = " " THEN LStrip(Tail(s)) ELSE s

RECURSIVE RStrip(_)
RStrip(s) ==
    IF s # <<>> /\ s[Len(s)] = " " THEN RStrip(SubSeq(s, 1, Len(s) - 1)) ELSE s

\* str.strip()
Strip(s) == RStrip(LStrip(s))

IsPrefix(pat, s) == Len(pat) <= Len(s) /\ SubSeq(s, 1, Len(pat)) = pat

\* str.replace(pat, ""): every non-overlapping occurrence, left to right
RECURSIVE Remove(_, _)
Remove(s, pat) ==
    IF s = <<>> THEN <<>>
    ELSE IF IsPrefix(pat, s) THEN Remove(SubSeq(s, Len(pat) + 1, Len(s)), pat)
    ELSE <<Head(s)>> \o Remove(Tail(s), pat)

\* str.split(SEP)
RECURSIVE Split(_)
Split(s) ==
    IF \A k \in 1..Len(s) : s[k] # SEP THEN <<s>>
    ELSE LET k == CHOOSE j \in 1..Len(s) :
                      s[j] = SEP /\ \A m \in 1..(j - 1) : s[m] # SEP
         IN <<SubSeq(s, 1, k - 1)>> \o Split(SubSeq(s, k + 1, Len(s)))

\* generate_code_with_llm: the text stripped of fences, None when the call raised
generate_code_with_llm(outcome) ==
    IF outcome = NoneT THEN NoneT
    ELSE Remove(Remove(Strip(outcome), <<"F", "html">>), <<"F">>)

\* modify_code_with_llm: the pair (html, readme), (None, None) on failure
modify_code_with_llm(outcome) ==
    IF outcome = NoneT THEN <<NoneT, NoneT>>
    ELSE LET parts == Split(outcome)
         IN IF Len(parts) = 2
            THEN << Remove(Remove(Strip(parts[1]), <<"F", "html">>), <<"F">>),
                    Remove(Remove(Strip(parts[2]), <<"F", "markdown">>), <<"F">>) >>
            ELSE <<NoneT, NoneT>>

\* the number of separators in a text
RECURSIVE Separators(_)
Separators(s) ==
    IF s = <<>> THEN 0 ELSE (IF Head(s) = SEP THEN 1 ELSE 0) + Separators(Tail(s))

\* the shape of the LLM's answer, recorded in the history of a request
LlmCase(outcome) ==
    IF outcome = NoneT THEN "raised"
    ELSE IF outcome = <<>> THEN "empty"
    ELSE IF Separators(outcome) = 0 THEN "no_separator"
    ELSE IF Separators(outcome) > 1 THEN "many_separators"
    ELSE IF Strip(Split(outcome)[1]) = <<>> \/ Strip(Split(outcome)[2]) = <<>>
         THEN "empty_part"
    ELSE "two_parts"

\* mutant: `is not None` in place of the truth test
TruthyT_NotNone(v) == v # NoneT

\* Python truth of a text-or-None value
TruthyT(v) == v # NoneT /\ v # <<>>

(* ---------------------------------------------------------------------- *)
(* The hosting provider: repositories by name, files with content hashes,  *)
(* a branch head.  A call may also fail for reasons of its own (Faults).   *)
(* ---------------------------------------------------------------------- *)
Paths == {"index.html", "README.md", "LICENSE"}
Faults == {"ok", "GithubException", "Exception"}

NoFiles == [f \in Paths |-> NoneT]
NoRepo ==
    [exists |-> FALSE, files |-> NoFiles, head |-> 0, pages |-> FALSE, owner |-> 0, ext |-> 0]
EmptyRepo(p) ==
    [exists |-> TRUE, files |-> NoFiles, head |-> 0, pages |-> FALSE, owner |-> p, ext |-> 0]

\* the content hash of a file
Sha(content) == <<"blob">> \o content

\* there is a repository of that name
Exists(store, name) == name \in DOMAIN store /\ store[name].exists

\* mutant: a lazy repository object, no request is made
GetRepoResult_Lazy(store, name, fault) == fault

\* get_repo(name): 404 when there is no such repository
GetRepoResult(store, name, fault) ==
    IF fault # "ok" THEN fault
    ELSE IF Exists(store, name) THEN "ok" ELSE "GithubException"

\* repo.delete()
DeleteResult(store, name, fault) == GetRepoResult(store, name, fault)

\* mutant: an existing repository of that name is taken over
CreateRepoResult_Reuse(store, name, fault) == fault

\* create_repo(name): 422 when the name is taken
CreateRepoResult(store, name, fault) ==
    IF fault # "ok" THEN fault
    ELSE IF Exists(store, name) THEN "GithubException" ELSE "ok"

\* mutant: no file can be created before the repository has a commit
CreateFileResult_NeedsBranch(store, name, path, fault) ==
    IF fault # "ok" THEN fault
    ELSE IF Exists(store, name) /\ store[name].files[path] = NoneT /\ store[name].head > 0
         THEN "ok" ELSE "GithubException"

\* create_file(path, content): 404 without repository, 422 when the path exists
CreateFileResult(store, name, path, fault) ==
    IF fault # "ok" THEN fault
    ELSE IF Exists(store, name) /\ store[name].files[path] = NoneT
         THEN "ok" ELSE "GithubException"

\* get_contents(path)
GetContentsResult(store, name, path, fault) ==
    IF fault # "ok" THEN fault
    ELSE IF Exists(store, name) /\ store[name].files[path] # NoneT
         THEN "ok" ELSE "GithubException"

\* mutant: update_file overwrites whatever is there
UpdateFileResult_NoToken(store, name, path, sha, fault) ==
    IF fault # "ok" THEN fault
    ELSE IF Exists(store, name) /\ store[name].files[path] # NoneT
         THEN "ok" ELSE "GithubException"

\* update_file(path, content, sha): 409 when sha is not the file's current hash
UpdateFileResult(store, name, path, sha, fault) ==
    IF fault # "ok" THEN fault
    ELSE IF /\ Exists(store, name)
            /\ store[name].files[path] # NoneT
            /\ Sha(store[name].files[path]) = sha
         THEN "ok" ELSE "GithubException"

\* get_branch("main"): 404 while the repository has no commit
GetBranchResult(store, name, fault) ==
    IF fault # "ok" THEN fault
    ELSE IF Exists(store, name) /\ store[name].head > 0 THEN "ok" ELSE "GithubException"

\* the store after a commit of content at path
Commit(store, name, path, content) ==
    [store EXCEPT ![name].files[path] = content, ![name].head = @ + 1]

\* repo.html_url and the pages URL of line 125 / 221
HtmlUrl(name) == <<"https://github.com", "login", name>>
PagesUrl(name) == <<"https://", "login", ".github.io", name>>

\* (None, None, None); a commit identifier is a positive number, None is 0
FailureTriple == [repo_url |-> NoneT, pages_url |-> NoneT, commit_sha |-> 0]

\* mutant: the commit before the last one is reported
Triple_Stale(name, sha) ==
    [repo_url |-> <<"https://github.com", "login", name>>,
     pages_url |-> <<"https://", "login", ".github.io", name>>,
     commit_sha |-> sha - 1]

Triple(name, sha) ==
    [repo_url |-> HtmlUrl(name), pages_url |-> PagesUrl(name), commit_sha |-> sha]

\* readme_content of line 116, LICENSE text of line 118
ReadmeContent(repo_name, brief) == Strip(<<"#", repo_name, ">", brief, "MIT">>)
LicenseText == Strip(<<"MIT", "Copyright">>)

(* ---------------------------------------------------------------------- *)
(* State                                                                   *)
(* ---------------------------------------------------------------------- *)
VARIABLES
    MY_SECRET,      \* the configured secret, read once at start
    pc,             \* pc[p]: where request p stands
    request_data,   \* request_data[p]: the JSON body of the request
    status,         \* status[p]: the HTTP status answered, 0 before the answer
    repos,          \* the hosting provider's repositories by name
    loc,            \* loc[p]: the handler's local variables
    hist            \* hist[p]: what the request did so far (history)

vars == <<MY_SECRET, pc, request_data, status, repos, loc, hist>>

retries == 5

InitLoc ==
    [generated_html |-> NoneT, html_file |-> NoneT, readme_file |-> NoneT,
     new_html |-> NoneT, new_readme |-> NoneT, latest_readme_file |-> NoneT,
     result |-> FailureTriple, i |-> 0, delay |-> 1]

InitHist ==
    [llm |-> 0, repoCalls |-> 0, deletes |-> 0, creates |-> 0, commits |-> 0,
     pagesReqs |-> 0, notifies |-> 0, posts |-> 0, failed |-> 0, waits |-> <<>>,
     last |-> "none", notify_ret |-> "none", llmcase |-> "none", existed |-> FALSE,
     payload |-> FailureTriple, handler |-> "none", ops |-> <<>>, failedOps |-> {},
     putFault |-> "none", stale |-> {}, replaced |-> NoFiles, injected |-> FALSE]

Init ==
    /\ MY_SECRET \in ConfiguredSecrets
    /\ pc = [p \in Procs |-> "idle"]
    /\ request_data = [p \in Procs |-> NoJson]
    /\ status = [p \in Procs |-> 0]
    /\ repos = [n \in RepoNames |-> NoRepo]
    /\ loc = [p \in Procs |-> InitLoc]
    /\ hist = [p \in Procs |-> InitHist]

(* ---------------------------------------------------------------------- *)
(* handle_request, up to the first remote call                             *)
(* ---------------------------------------------------------------------- *)
PostOutcomes == {"200", "500", "RequestException"}

\* `not request_data` of line 286: no JSON, or an empty object
NoData(d) == d = NoJson \/ d.keys = {}

\* mutant: the comparison alone, without the test that a secret is configured
SecretVerified_NoEmptyTest(configured, d) == Get(d, "secret") = configured

\* line 289, negated: the secret is configured and the request carries it
SecretVerified(configured, d) ==
    Truthy(configured) /\ Get(d, "secret") = configured

\* line 294
RoundNum(d) == IF "round" \in d.keys THEN d.round ELSE 1

\* mutant: round 1 is taken for a modification as well
IsModify_FromOne(round_num) == round_num >= 1

\* line 295: the round that selects handle_round_2
IsModify(round_num) == round_num > 1

\* mutant: any([brief, repo_name])
BriefAndTask_Any(d) == Truthy(Get(d, "brief")) \/ Truthy(Get(d, "task"))

\* lines 254 and 273: all([brief, repo_name])
BriefAndTask(d) == Truthy(Get(d, "brief")) /\ Truthy(Get(d, "task"))

\* lines 300-301
HasEvaluationUrl(d) == Truthy(Get(d, "evaluation_url"))

\* a remote operation: its kind and the path it is about ("" when none)
Op(kind, path) == <<kind, path>>

\* the history after a call to the hosting provider that met the fault (if
\* any) and ended with result r
Called(h, op, fault, r) ==
    [h EXCEPT !.repoCalls = @ + 1,
              !.ops = Append(@, op),
              !.injected = @ \/ fault # "ok",
              !.failedOps = IF r = "ok" THEN @ ELSE @ \cup {op}]

\* abort(code): the request is answered with the status
Abort(p, code, l, h) ==
    /\ pc' = [pc EXCEPT ![p] = "done"]
    /\ status' = [status EXCEPT ![p] = code]
    /\ loc' = [loc EXCEPT ![p] = l]
    /\ hist' = [hist EXCEPT ![p] = h]

Goto(p, label, l, h) ==
    /\ pc' = [pc EXCEPT ![p] = label]
    /\ status' = status
    /\ loc' = [loc EXCEPT ![p] = l]
    /\ hist' = [hist EXCEPT ![p] = h]

\* mutant: the failure triple is passed on to the Notifier
HandlerReturned_NoAbort(p, triple, l, h) ==
    IF ~HasEvaluationUrl(request_data[p])
    THEN Abort(p, 400, [l EXCEPT !.result = triple], h)
    ELSE Goto(p, "n_post", [l EXCEPT !.result = triple, !.i = 0, !.delay = 1],
              [h EXCEPT !.notifies = @ + 1, !.payload = triple])

\* lines 262-265 / 277-280, then 300-314: the handler returned the triple
HandlerReturned(p, triple, l, h) ==
    IF ~TruthyT(triple.repo_url)
    THEN Abort(p, 500, [l EXCEPT !.result = triple], h)
    ELSE IF ~HasEvaluationUrl(request_data[p])
    THEN Abort(p, 400, [l EXCEPT !.result = triple], h)
    ELSE Goto(p, "n_post", [l EXCEPT !.result = triple, !.i = 0, !.delay = 1],
              [h EXCEPT !.notifies = @ + 1, !.payload = triple])

\* a request may be taken while its commits fit the bound on commit numbers
Fits(d) ==
    \A n \in RepoNames :
        (Get(d, "task") = n /\ RoundNum(d) > 1) => repos[n].head + 2 <= MaxCommits

\* the framework hands a request to the handler; requests do not overlap
Receive(p) ==
    /\ \A q \in Procs : pc[q] = "idle"
    /\ \E d \in Requests :
        /\ Fits(d)
        /\ request_data' = [request_data EXCEPT ![p] = d]
        /\ hist' = [hist EXCEPT ![p] =
                        [InitHist EXCEPT !.existed =
                            Exists(repos, Get(d, "task"))]]
    /\ pc' = [pc EXCEPT ![p] = "handle_request"]
    /\ repos' = [n \in RepoNames |->
                    IF repos[n].owner = p THEN [repos[n] EXCEPT !.owner = 0] ELSE repos[n]]
    /\ UNCHANGED <<MY_SECRET, status, loc>>

\* mutant: evaluation_url is tested before the handler is called
HandleRequest_UrlFirst(p) ==
    /\ pc[p] = "handle_request"
    /\ LET d == request_data[p] IN
        IF NoData(d) THEN Abort(p, 400, loc[p], hist[p])
        ELSE IF ~SecretVerified(MY_SECRET, d) THEN Abort(p, 403, loc[p], hist[p])
        ELSE IF ~HasEvaluationUrl(d) THEN Abort(p, 400, loc[p], hist[p])
        ELSE IF IsModify(RoundNum(d))
        THEN IF ~BriefAndTask(d)
             THEN Abort(p, 400, loc[p], [hist[p] EXCEPT !.handler = "handle_round_2"])
             ELSE Goto(p, "u_get_repo", loc[p], [hist[p] EXCEPT !.handler = "handle_round_2"])
        ELSE IF ~BriefAndTask(d)
             THEN Abort(p, 400, loc[p], [hist[p] EXCEPT !.handler = "handle_round_1"])
             ELSE Goto(p, "r1_llm", loc[p], [hist[p] EXCEPT !.handler = "handle_round_1"])
    /\ UNCHANGED <<MY_SECRET, request_data, repos>>

\* lines 285-298 with 249-255 and 269-274
HandleRequest(p) ==
    /\ pc[p] = "handle_request"
    /\ LET d == request_data[p] IN
        IF NoData(d) THEN Abort(p, 400, loc[p], hist[p])
        ELSE IF ~SecretVerified(MY_SECRET, d) THEN Abort(p, 403, loc[p], hist[p])
        ELSE IF IsModify(RoundNum(d))
        THEN IF ~BriefAndTask(d)
             THEN Abort(p, 400, loc[p], [hist[p] EXCEPT !.handler = "handle_round_2"])
             ELSE Goto(p, "u_get_repo", loc[p], [hist[p] EXCEPT !.handler = "handle_round_2"])
        ELSE IF ~BriefAndTask(d)
             THEN Abort(p, 400, loc[p], [hist[p] EXCEPT !.handler = "handle_round_1"])
             ELSE Goto(p, "r1_llm", loc[p], [hist[p] EXCEPT !.handler = "handle_round_1"])
    /\ UNCHANGED <<MY_SECRET, request_data, repos>>

\* the response is sent; the request's variables are gone
Finish(p) ==
    /\ pc[p] = "done"
    /\ pc' = [pc EXCEPT ![p] = "idle"]
    /\ request_data' = [request_data EXCEPT ![p] = NoJson]
    /\ status' = [status EXCEPT ![p] = 0]
    /\ loc' = [loc EXCEPT ![p] = InitLoc]
    /\ hist' = [hist EXCEPT ![p] = InitHist]
    /\ UNCHANGED <<MY_SECRET, repos>>

(* ---------------------------------------------------------------------- *)
(* Round 1: handle_round_1 and deploy_to_github                            *)
(* ---------------------------------------------------------------------- *)
repo_name(p) == Get(request_data[p], "task")
brief(p) == Get(request_data[p], "brief")

\* lines 257-259
GenerateCodeWith(p, outcomes) ==
    /\ pc[p] = "r1_llm"
    /\ \E outcome \in outcomes :
        LET html == generate_code_with_llm(outcome)
            l == [loc[p] EXCEPT !.generated_html = html]
            h == [hist[p] EXCEPT !.llm = @ + 1, !.llmcase = LlmCase(outcome)]
        IN IF ~TruthyT(html) THEN Abort(p, 500, l, h)
           ELSE Goto(p, "d_get_repo", l, h)
    /\ UNCHANGED <<MY_SECRET, request_data, repos>>

GenerateCode(p) == GenerateCodeWith(p, LlmOutcomes)

\* lines 103-104, 108-109
DeployGetRepoWith(p, faults) ==
    /\ pc[p] = "d_get_repo"
    /\ \E fault \in faults :
        LET r == GetRepoResult(repos, repo_name(p), fault)
            h == Called(hist[p], Op("get_repo", ""), fault, r)
        IN IF r = "ok" THEN Goto(p, "d_delete", loc[p], h)
           ELSE IF r = "GithubException" THEN Goto(p, "d_create", loc[p], h)
           ELSE HandlerReturned(p, FailureTriple, loc[p], h)
    /\ UNCHANGED <<MY_SECRET, request_data, repos>>

DeployGetRepo(p) == DeployGetRepoWith(p, Faults)

\* lines 106-109
DeployDeleteWith(p, faults) ==
    /\ pc[p] = "d_delete"
    /\ \E fault \in faults :
        LET r == DeleteResult(repos, repo_name(p), fault)
            h == Called(hist[p], Op("delete", ""), fault, r)
        IN IF r = "ok"
           THEN /\ repos' = [repos EXCEPT ![repo_name(p)] = NoRepo]
                /\ Goto(p, "d_create", loc[p], [h EXCEPT !.deletes = @ + 1])
           ELSE IF r = "GithubException"
           THEN /\ repos' = repos
                /\ Goto(p, "d_create", loc[p], h)
           ELSE /\ repos' = repos
                /\ HandlerReturned(p, FailureTriple, loc[p], h)
    /\ UNCHANGED <<MY_SECRET, request_data>>

DeployDelete(p) == DeployDeleteWith(p, Faults)

\* lines 111-112
DeployCreateRepoWith(p, faults) ==
    /\ pc[p] = "d_create"
    /\ \E fault \in faults :
        LET r == CreateRepoResult(repos, repo_name(p), fault)
            h == Called(hist[p], Op("create_repo", ""), fault, r)
        IN IF r = "ok"
           THEN /\ repos' = [repos EXCEPT ![repo_name(p)] = EmptyRepo(p)]
                /\ Goto(p, "d_index", loc[p], [h EXCEPT !.creates = @ + 1])
           ELSE /\ repos' = repos
                /\ HandlerReturned(p, FailureTriple, loc[p], h)
    /\ UNCHANGED <<MY_SECRET, request_data>>

DeployCreateRepo(p) == DeployCreateRepoWith(p, Faults)

\* repo.create_file of lines 115, 117, 119
CreateFile(p, at, path, content, next, faults) ==
    /\ pc[p] = at
    /\ \E fault \in faults :
        LET r == CreateFileResult(repos, repo_name(p), path, fault)
            h == Called(hist[p], Op("create_file", path), fault, r)
        IN IF r = "ok"
           THEN /\ repos' = Commit(repos, repo_name(p), path, content)
                /\ Goto(p, next, loc[p], [h EXCEPT !.commits = @ + 1])
           ELSE /\ repos' = repos
                /\ HandlerReturned(p, FailureTriple, loc[p], h)
    /\ UNCHANGED <<MY_SECRET, request_data>>

\* line 115
DeployIndexWith(p, faults) ==
    CreateFile(p, "d_index", "index.html", loc[p].generated_html, "d_readme", faults)

DeployIndex(p) == DeployIndexWith(p, Faults)

\* line 117
DeployReadmeWith(p, faults) ==
    CreateFile(p, "d_readme", "README.md", ReadmeContent(repo_name(p), brief(p)),
               "d_license", faults)

DeployReadme(p) == DeployReadmeWith(p, Faults)

\* line 119
DeployLicenseWith(p, faults) ==
    CreateFile(p, "d_license", "LICENSE", LicenseText, "d_pages", faults)

\* mutant: the pages request is left out
DeployLicense_SkipPages(p) ==
    CreateFile(p, "d_license", "LICENSE", LicenseText, "d_branch", Faults)

DeployLicense(p) == DeployLicenseWith(p, Faults)

\* enable_github_pages (lines 70-94): True on 201, False otherwise; line 122
\* drops the result
EnablePagesResult(store, name, fault) ==
    fault = "ok" /\ Exists(store, name) /\ store[name].head > 0

DeployEnablePagesWith(p, faults) ==
    /\ pc[p] = "d_pages"
    /\ \E fault \in faults :
        LET enabled == EnablePagesResult(repos, repo_name(p), fault)
            h == [hist[p] EXCEPT
                    !.pagesReqs = @ + 1,
                    !.ops = Append(@, Op("enable_pages", "")),
                    !.injected = @ \/ fault # "ok",
                    !.failedOps = IF enabled THEN @ ELSE @ \cup {Op("enable_pages", "")}]
        IN /\ repos' = [repos EXCEPT ![repo_name(p)].pages = @ \/ enabled]
           /\ Goto(p, "d_branch", loc[p], h)
    /\ UNCHANGED <<MY_SECRET, request_data>>

DeployEnablePages(p) == DeployEnablePagesWith(p, Faults)

\* lines 124-128
DeployGetBranchWith(p, faults) ==
    /\ pc[p] = "d_branch"
    /\ \E fault \in faults :
        LET r == GetBranchResult(repos, repo_name(p), fault)
            h == Called(hist[p], Op("get_branch", ""), fault, r)
        IN IF r = "ok"
           THEN HandlerReturned(p, Triple(repo_name(p), repos[repo_name(p)].head), loc[p], h)
           ELSE HandlerReturned(p, FailureTriple, loc[p], h)
    /\ UNCHANGED <<MY_SECRET, request_data, repos>>

DeployGetBranch(p) == DeployGetBranchWith(p, Faults)

(* ---------------------------------------------------------------------- *)
(* Round > 1: handle_round_2 and update_github_repo                        *)
(* ---------------------------------------------------------------------- *)
\* a fetched file: its content and its content hash
ContentFile(content) == [content |-> content, sha |-> Sha(content)]

\* lines 179-181
UpdateGetRepo(p) ==
    /\ pc[p] = "u_get_repo"
    /\ \E fault \in Faults :
        LET r == GetRepoResult(repos, repo_name(p), fault)
            h == Called(hist[p], Op("get_repo", ""), fault, r)
        IN IF r = "ok" THEN Goto(p, "u_get_html", loc[p], h)
           ELSE HandlerReturned(p, FailureTriple, loc[p], h)
    /\ UNCHANGED <<MY_SECRET, request_data, repos>>

\* repo.get_contents of lines 183, 184 and 209
GetContents(p, at, path, into, next) ==
    /\ pc[p] = at
    /\ \E fault \in Faults :
        LET r == GetContentsResult(repos, repo_name(p), path, fault)
            h == Called(hist[p], Op("get_contents", path), fault, r)
        IN IF r = "ok"
           THEN Goto(p, next,
                     [loc[p] EXCEPT ![into] = ContentFile(repos[repo_name(p)].files[path]).sha],
                     h)
           ELSE HandlerReturned(p, FailureTriple, loc[p], h)
    /\ UNCHANGED <<MY_SECRET, request_data, repos>>

UpdateGetHtml(p) == GetContents(p, "u_get_html", "index.html", "html_file", "u_get_readme")

UpdateGetReadme(p) == GetContents(p, "u_get_readme", "README.md", "readme_file", "u_llm")

\* line 191: the check that the LLM call was successful
LlmFailed(new_html, new_readme) == new_html = NoneT \/ new_readme = NoneT

\* lines 188-192
ModifyCode(p) ==
    /\ pc[p] = "u_llm"
    /\ \E outcome \in LlmOutcomes :
        LET pair == modify_code_with_llm(outcome)
            l == [loc[p] EXCEPT !.new_html = pair[1], !.new_readme = pair[2]]
            h == [hist[p] EXCEPT !.llm = @ + 1, !.llmcase = LlmCase(outcome)]
        IN IF LlmFailed(pair[1], pair[2])
           THEN HandlerReturned(p, FailureTriple, l, h)
           ELSE Goto(p, "u_put_html", l, h)
    /\ UNCHANGED <<MY_SECRET, request_data, repos>>

\* the history after an update_file of path with the hash token sha
Put(h, store, name, path, sha, fault, r) ==
    [Called(h, Op("update_file", path), fault, r) EXCEPT
        !.putFault = IF fault = "ok" THEN "ok" ELSE "raised",
        !.stale = IF Exists(store, name) /\ Sha(store[name].files[path]) # sha
                  THEN @ \cup {path} ELSE @,
        !.replaced[path] = IF r = "ok" THEN store[name].files[path] ELSE @,
        !.commits = IF r = "ok" THEN @ + 1 ELSE @]

\* lines 196-202
UpdatePutHtml(p) ==
    /\ pc[p] = "u_put_html"
    /\ \E fault \in Faults :
        LET r == UpdateFileResult(repos, repo_name(p), "index.html", loc[p].html_file, fault)
            h == Put(hist[p], repos, repo_name(p), "index.html", loc[p].html_file, fault, r)
        IN IF r = "ok"
           THEN /\ repos' = Commit(repos, repo_name(p), "index.html", loc[p].new_html)
                /\ Goto(p, "u_refetch", loc[p], h)
           ELSE /\ repos' = repos
                /\ HandlerReturned(p, FailureTriple, loc[p], h)
    /\ UNCHANGED <<MY_SECRET, request_data>>

\* lines 205-209
UpdateRefetchReadme(p) ==
    GetContents(p, "u_refetch", "README.md", "latest_readme_file", "u_put_readme")

\* mutant: the README.md commit carries the hash of the first read
ReadmeToken_FirstRead(l) == l.readme_file

\* line 214: the hash the README.md commit carries
ReadmeToken(l) == l.latest_readme_file

\* lines 210-225
UpdatePutReadme(p) ==
    /\ pc[p] = "u_put_readme"
    /\ \E fault \in Faults :
        LET r == UpdateFileResult(repos, repo_name(p), "README.md",
                                  ReadmeToken(loc[p]), fault)
            h == Put(hist[p], repos, repo_name(p), "README.md",
                     loc[p].latest_readme_file, fault, r)
            after == Commit(repos, repo_name(p), "README.md", loc[p].new_readme)
        IN IF r = "ok"
           THEN /\ repos' = after
                /\ HandlerReturned(p, Triple(repo_name(p), after[repo_name(p)].head), loc[p], h)
           ELSE /\ repos' = repos
                /\ HandlerReturned(p, FailureTriple, loc[p], h)
    /\ UNCHANGED <<MY_SECRET, request_data>>

(* ---------------------------------------------------------------------- *)
(* notify_evaluation_server, then line 316                                 *)
(* ---------------------------------------------------------------------- *)
\* line 234
Delivered(outcome) == outcome = "200"

\* line 241
NextDelay(delay) == delay * 2

\* mutant: one attempt too many
MoreAttempts_OffByOne(i) == i + 1 <= retries

\* the loop condition of line 231 after attempt i (counted from 0)
MoreAttempts(i) == i + 1 < retries

\* mutant: a failed notification is reported to the webhook caller
AckStatus_Reports(notify_ret) == IF notify_ret = "False" THEN 500 ELSE 200

\* line 316: the status answered once the Notifier returned
AckStatus(notify_ret) == 200

\* lines 232-239; on True the handler answers 200 (line 316)
NotifyPostWith(p, outcomes) ==
    /\ pc[p] = "n_post"
    /\ \E outcome \in outcomes :
        LET h == [hist[p] EXCEPT !.posts = @ + 1, !.last = outcome]
        IN IF Delivered(outcome)
           THEN Abort(p, AckStatus("True"), loc[p], [h EXCEPT !.notify_ret = "True"])
           ELSE Goto(p, "n_sleep", loc[p], [h EXCEPT !.failed = @ + 1])
    /\ UNCHANGED <<MY_SECRET, request_data, repos>>

NotifyPost(p) == NotifyPostWith(p, PostOutcomes)

\* mutant: the loop is not left after the last attempt
NotifySleep_NoExit(p) ==
    /\ pc[p] = "n_sleep"
    /\ LET h == [hist[p] EXCEPT !.waits = Append(@, loc[p].delay)]
           l == [loc[p] EXCEPT !.delay = NextDelay(@), !.i = @ + 1]
       IN Goto(p, "n_post", l, h)
    /\ UNCHANGED <<MY_SECRET, request_data, repos>>

\* lines 240-243; on False the handler answers 200 all the same (line 316)
NotifySleep(p) ==
    /\ pc[p] = "n_sleep"
    /\ LET h == [hist[p] EXCEPT !.waits = Append(@, loc[p].delay)]
           l == [loc[p] EXCEPT !.delay = NextDelay(@), !.i = @ + 1]
       IN IF MoreAttempts(loc[p].i) THEN Goto(p, "n_post", l, h)
          ELSE Abort(p, AckStatus("False"), [l EXCEPT !.i = loc[p].i],
                     [h EXCEPT !.notify_ret = "False"])
    /\ UNCHANGED <<MY_SECRET, request_data, repos>>

(* ---------------------------------------------------------------------- *)
(* Specification                                                           *)
(* ---------------------------------------------------------------------- *)
Next ==
    \E p \in Procs :
        \/ Receive(p)
        \/ HandleRequest(p)
        \/ GenerateCode(p)
        \/ DeployGetRepo(p)
        \/ DeployDelete(p)
        \/ DeployCreateRepo(p)
        \/ DeployIndex(p)
        \/ DeployReadme(p)
        \/ DeployLicense(p)
        \/ DeployEnablePages(p)
        \/ DeployGetBranch(p)
        \/ UpdateGetRepo(p)
        \/ UpdateGetHtml(p)
        \/ UpdateGetReadme(p)
        \/ ModifyCode(p)
        \/ UpdatePutHtml(p)
        \/ UpdateRefetchReadme(p)
        \/ UpdatePutReadme(p)
        \/ NotifyPost(p)
        \/ NotifySleep(p)
        \/ Finish(p)

Spec == Init /\ [][Next]_vars

\* the steps of one request between its receipt and its response
Step(p) ==
    \/ HandleRequest(p)
    \/ GenerateCode(p)
    \/ DeployGetRepo(p)
    \/ DeployDelete(p)
    \/ DeployCreateRepo(p)
    \/ DeployIndex(p)
    \/ DeployReadme(p)
    \/ DeployLicense(p)
    \/ DeployEnablePages(p)
    \/ DeployGetBranch(p)
    \/ UpdateGetRepo(p)
    \/ UpdateGetHtml(p)
    \/ UpdateGetReadme(p)
    \/ ModifyCode(p)
    \/ UpdatePutHtml(p)
    \/ UpdateRefetchReadme(p)
    \/ UpdatePutReadme(p)
    \/ NotifyPost(p)
    \/ NotifySleep(p)

\* what a writer other than this service commits
ExtContents == {<<"other">>}

\* another writer commits to a file of an existing repository
ExternalWrite(n) ==
    /\ Exists(repos, n)
    /\ repos[n].ext < MaxExternalWrites
    /\ \E path \in {"index.html", "README.md"}, content \in ExtContents :
        /\ repos[n].files[path] # NoneT
        /\ repos' = [Commit(repos, n, path, content) EXCEPT ![n].ext = @ + 1]
    /\ UNCHANGED <<MY_SECRET, pc, request_data, status, loc, hist>>

NextExt ==
    \/ Next
    \/ \E n \in RepoNames : ExternalWrite(n)

\* requests one after the other, with another writer on the repositories
SpecExt == Init /\ [][NextExt]_vars

\* every external call returns or raises and the interpreter goes on: a
\* request that can take a step eventually takes one
\* the round-1 requests for one task that two workers serve at the same time
ConcRequests ==
    {d \in Bodies :
        /\ d.keys = Keys
        /\ SecretVerified(MY_SECRET, d)
        /\ BriefAndTask(d)
        /\ HasEvaluationUrl(d)
        /\ ~IsModify(RoundNum(d))}

\* the framework hands a request to a worker while another may be running
ReceiveConc(p) ==
    /\ pc[p] = "idle"
    /\ \E d \in ConcRequests :
        /\ request_data' = [request_data EXCEPT ![p] = d]
        /\ hist' = [hist EXCEPT ![p] =
                        [InitHist EXCEPT !.existed =
                            Exists(repos, Get(d, "task"))]]
    /\ pc' = [pc EXCEPT ![p] = "handle_request"]
    /\ UNCHANGED <<MY_SECRET, status, loc, repos>>

\* the environment of the two workers: the LLM answers, with one of two
\* pages; no call to the hosting provider fails on its own
ConcLlm == {<<"x">>, <<"x", SEP, "x">>}
NoFault == {"ok"}

NextConc ==
    \E p \in Procs :
        \/ ReceiveConc(p)
        \/ HandleRequest(p)
        \/ GenerateCodeWith(p, ConcLlm)
        \/ DeployGetRepoWith(p, NoFault)
        \/ DeployDeleteWith(p, NoFault)
        \/ DeployCreateRepoWith(p, NoFault)
        \/ DeployIndexWith(p, NoFault)
        \/ DeployReadmeWith(p, NoFault)
        \/ DeployLicenseWith(p, NoFault)
        \/ DeployEnablePagesWith(p, NoFault)
        \/ DeployGetBranchWith(p, NoFault)
        \/ NotifyPost(p)
        \/ NotifySleep(p)

\* two workers, one round-1 request each, for the same task, with no
\* failure other than those the two requests cause each other
SpecConc == Init /\ [][NextConc]_vars

\* one worker serving the requests one after the other
Worker == 1
NextWorker == Receive(Worker) \/ Step(Worker) \/ Finish(Worker)
SpecFair == Init /\ [][NextWorker]_vars /\ WF_vars(Step(Worker))

TypeOK ==
    /\ MY_SECRET \in ConfiguredSecrets
    /\ \A p \in Procs :
        /\ request_data[p] \in Requests
        /\ status[p] \in {0, 200, 400, 403, 500}
        /\ loc[p].i \in 0..(retries - 1)
    /\ \A n \in RepoNames : repos[n].head \in 0..MaxCommits

(* ---------------------------------------------------------------------- *)
(* Properties                                                              *)
(* ---------------------------------------------------------------------- *)
Active(p) == pc[p] # "idle"
Answered(p) == pc[p] = "done"
Verified(p) == SecretVerified(MY_SECRET, request_data[p])

\* the request made no LLM call, no repository call and no notification POST
NoExternalCall(p) ==
    /\ hist[p].llm = 0
    /\ hist[p].repoCalls = 0
    /\ hist[p].pagesReqs = 0
    /\ hist[p].deletes = 0 /\ hist[p].creates = 0 /\ hist[p].commits = 0
    /\ hist[p].notifies = 0 /\ hist[p].posts = 0

\* the supplied secret differs from the configured one, or none is configured
SecretFails(p) ==
    ~Truthy(MY_SECRET) \/ Get(request_data[p], "secret") # MY_SECRET

\* C1 as stated: every request whose secret differs from the configured
\* secret, and every request when no secret is configured, is answered 403
\* and makes no LLM, repository or notification call.
C1_AsStated ==
    \A p \in Procs :
        (Active(p) /\ SecretFails(p)) =>
            /\ NoExternalCall(p)
            /\ Answered(p) => status[p] = 403

\* C1 amended: such a request is answered 403 when it carries JSON data and
\* 400 when it carries none or an empty object (line 286 comes first); in
\* both cases it makes no LLM, repository or notification call.
C1_SecretGate ==
    \A p \in Procs :
        (Active(p) /\ SecretFails(p)) =>
            /\ NoExternalCall(p)
            /\ pc[p] \in {"handle_request", "done"}
            /\ Answered(p) =>
                status[p] = IF NoData(request_data[p]) THEN 400 ELSE 403

C1_Witness ==
    \E p \in Procs :
        /\ Answered(p) /\ status[p] = 403
        /\ Truthy(MY_SECRET)
        /\ Get(request_data[p], "secret") = "bad"
        /\ BriefAndTask(request_data[p])

\* brief or task is absent, null or the empty string
MissingBriefOrTask(p) ==
    \/ Get(request_data[p], "brief") \in {None, ""}
    \/ Get(request_data[p], "task") \in {None, ""}

\* C2: a request with a valid secret whose brief or task is missing or empty
\* is answered 400, in round 1 and in round > 1, and makes no LLM call, no
\* repository read or write and no notification POST.
C2_MissingBriefOrTask ==
    \A p \in Procs :
        (Active(p) /\ Verified(p) /\ MissingBriefOrTask(p)) =>
            /\ NoExternalCall(p)
            /\ pc[p] \in {"handle_request", "done"}
            /\ Answered(p) => status[p] = 400

C2_Witness ==
    \E p \in Procs :
        /\ Answered(p) /\ status[p] = 400 /\ Verified(p)
        /\ RoundNum(request_data[p]) > 1
        /\ hist[p].handler = "handle_round_2"
        /\ Truthy(Get(request_data[p], "brief"))
        /\ ~Truthy(Get(request_data[p], "task"))

\* C3: one invocation of notify_evaluation_server makes at most 5 POST
\* attempts; a 200 on attempt k ends it with True and no further attempt;
\* any other status or a network exception is a failed attempt; the result
\* is False exactly when all 5 attempts failed.
C3_AtMostFiveAttempts ==
    \A p \in Procs :
        /\ hist[p].posts <= retries
        /\ hist[p].posts \in {hist[p].failed, hist[p].failed + 1}
        /\ hist[p].last = "200" <=> hist[p].posts = hist[p].failed + 1
        /\ hist[p].last = "200" => (Answered(p) /\ hist[p].notify_ret = "True")
        /\ hist[p].notify_ret = "True" => hist[p].last = "200"
        /\ hist[p].notify_ret = "False" <=> (Answered(p) /\ hist[p].failed = retries)
        /\ (Answered(p) /\ hist[p].notifies = 1) => hist[p].notify_ret # "none"

C3_Witness ==
    \E p \in Procs :
        /\ hist[p].notify_ret = "True"
        /\ hist[p].posts = retries
        /\ hist[p].failed = retries - 1

Pow2(k) == 2 ^ k

\* the waits taken so far are 1, 2, 4, ... in this order
Doubling(w) == \A k \in 1..Len(w) : w[k] = Pow2(k - 1)

\* C4 as stated: the wait after the k-th failed attempt is 2^(k-1), every
\* wait is followed by a further attempt, and no wait follows a success.
C4_AsStated ==
    \A p \in Procs :
        /\ Doubling(hist[p].waits)
        /\ Len(hist[p].waits) <= hist[p].failed
        /\ (Answered(p) /\ hist[p].notifies = 1) =>
                Len(hist[p].waits) = hist[p].posts - 1

\* the result triple names the repository and a commit
RealTriple(t) == TruthyT(t.repo_url) /\ TruthyT(t.pages_url) /\ t.commit_sha > 0

\* C5 as stated: every request that passes secret verification (and names
\* brief, task and evaluation_url, so that publish/update ran) hands the
\* payload to the Notifier exactly once, with the real values when
\* publish/update succeeded and with null values when it failed.
C5_AsStated ==
    \A p \in Procs :
        ( /\ Answered(p) /\ Verified(p)
          /\ BriefAndTask(request_data[p]) /\ HasEvaluationUrl(request_data[p]) ) =>
            /\ hist[p].notifies = 1
            /\ hist[p].payload = loc[p].result

\* C5 amended: a verified request hands the payload to the Notifier at most
\* once; exactly once when the handler returned a real triple and the
\* request names an evaluation_url, and then with the real repo_url,
\* commit_sha and pages_url; when validation, generation or publish/update
\* failed the request is aborted and the Notifier is not invoked.
C5_NotifiedOnceOnSuccess ==
    \A p \in Procs :
        /\ hist[p].notifies <= 1
        /\ hist[p].notifies = 1 =>
            /\ Verified(p)
            /\ RealTriple(hist[p].payload)
            /\ hist[p].payload = loc[p].result
            /\ hist[p].payload.repo_url = HtmlUrl(repo_name(p))
            /\ HasEvaluationUrl(request_data[p])
        /\ (Answered(p) /\ Verified(p)) =>
            (hist[p].notifies = 1 <=>
                (RealTriple(loc[p].result) /\ HasEvaluationUrl(request_data[p])))
        /\ (Answered(p) /\ status[p] = 500) => hist[p].notifies = 0

C5_Witness ==
    \E p \in Procs :
        /\ Answered(p) /\ Verified(p)
        /\ hist[p].notifies = 1
        /\ hist[p].handler = "handle_round_2"
        /\ RealTriple(hist[p].payload)

\* C6: the Notifier's outcome never changes the webhook response: a request
\* that reached the Notifier is answered 200, whether the Notifier returned
\* True or, after 5 failed attempts, False.
C6_NotifyOutcomeIgnored ==
    \A p \in Procs :
        (Answered(p) /\ hist[p].notifies = 1) =>
            /\ status[p] = 200
            /\ hist[p].notify_ret \in {"True", "False"}

C6_Witness ==
    \E p \in Procs :
        /\ Answered(p) /\ status[p] = 200
        /\ hist[p].notify_ret = "False"
        /\ hist[p].failed = retries

\* the LLM generation failed in one of the ways C7 names
GenerationFailed(p) ==
    \/ hist[p].handler = "handle_round_1" /\ hist[p].llmcase \in {"raised", "empty"}
    \/ hist[p].handler = "handle_round_2"
        /\ hist[p].llmcase \in {"raised", "empty", "no_separator"}

\* C7: when the LLM call raises, returns empty text or, in modify mode,
\* returns text without the separator, the request is answered 500, nothing
\* is committed (round 1: no repository is looked up, deleted or created;
\* round > 1: neither file is updated) and no notification POST is sent.
C7_GenerationFailure ==
    \A p \in Procs :
        GenerationFailed(p) =>
            /\ Answered(p) /\ status[p] = 500
            /\ hist[p].commits = 0 /\ hist[p].deletes = 0 /\ hist[p].creates = 0
            /\ hist[p].notifies = 0 /\ hist[p].posts = 0
            /\ hist[p].handler = "handle_round_1" => hist[p].repoCalls = 0

C7_Witness ==
    \E p \in Procs :
        /\ GenerationFailed(p)
        /\ hist[p].handler = "handle_round_2"
        /\ hist[p].llmcase = "no_separator"
        /\ status[p] = 500

\* C8 as stated: in modify mode an answer with zero or several separators,
\* or with one separator and an HTML or README part that is empty after
\* trimming, yields the failure pair and nothing is committed.
C8_AsStated ==
    \A p \in Procs :
        ( /\ hist[p].handler = "handle_round_2"
          /\ hist[p].llmcase \in {"empty", "no_separator", "many_separators", "empty_part"} ) =>
            /\ loc[p].new_html = NoneT /\ loc[p].new_readme = NoneT
            /\ hist[p].commits = 0

\* the files of a finished round-1 publish
PublishedFiles(p) ==
    [f \in Paths |->
        IF f = "index.html" THEN loc[p].generated_html
        ELSE IF f = "README.md" THEN ReadmeContent(repo_name(p), brief(p))
        ELSE LicenseText]

\* C9: a successful round-1 run starts its commits on a repository it has
\* just created, empty; when a repository of that name existed the run
\* deleted it and created it anew, and at the end the files are exactly
\* index.html, README.md and LICENSE with this request's contents.
C9_CleanSlate ==
    \A p \in Procs :
        hist[p].handler = "handle_round_1" =>
            /\ pc[p] = "d_index" =>
                /\ repos[repo_name(p)] = EmptyRepo(p)
                /\ hist[p].creates = 1
            /\ RealTriple(loc[p].result) =>
                /\ repos[repo_name(p)].exists
                /\ repos[repo_name(p)].owner = p
                /\ repos[repo_name(p)].files = PublishedFiles(p)
                /\ repos[repo_name(p)].head = 3
                /\ hist[p].creates = 1 /\ hist[p].commits = 3
                /\ hist[p].deletes = IF hist[p].existed THEN 1 ELSE 0

C9_Witness ==
    \E p \in Procs :
        /\ Answered(p) /\ status[p] = 200
        /\ hist[p].handler = "handle_round_1"
        /\ hist[p].existed /\ hist[p].deletes = 1 /\ hist[p].creates = 1
        /\ brief(p) = "b2"
        /\ repos[repo_name(p)].files = PublishedFiles(p)

\* the request is a valid round > 1 request for a repository that did not
\* exist when it arrived
ModifyOfMissingRepo(p) ==
    /\ Active(p) /\ Verified(p) /\ BriefAndTask(request_data[p])
    /\ RoundNum(request_data[p]) > 1
    /\ ~hist[p].existed

\* C10: a valid round > 1 request naming a repository that does not exist
\* is answered 500; it fails at the repository fetch, so it makes no LLM
\* call, no commit and no notification POST, and creates no repository.
C10_ModifyMissingRepo ==
    \A p \in Procs :
        ModifyOfMissingRepo(p) =>
            /\ pc[p] \in {"handle_request", "u_get_repo", "done"}
            /\ Answered(p) => status[p] = 500
            /\ hist[p].llm = 0 /\ hist[p].commits = 0 /\ hist[p].creates = 0
            /\ hist[p].notifies = 0 /\ hist[p].posts = 0
            /\ ~Exists(repos, repo_name(p))

C10_Witness ==
    \E p \in Procs :
        /\ ModifyOfMissingRepo(p)
        /\ Answered(p) /\ status[p] = 500
        /\ hist[p].repoCalls = 1

\* the handler of the request has returned (or aborted)
HandlerOver(p) == pc[p] \in {"n_post", "n_sleep", "done"}

\* the steps of the round-1 publish sequence that C11 names
PublishSteps ==
    {Op("create_repo", ""), Op("enable_pages", ""), Op("get_branch", "")}
        \cup {Op("create_file", f) : f \in Paths}

\* C11 as stated: when a step of the round-1 publish sequence fails
\* (repository create, a file commit, the pages request, the commit
\* read-back), deploy_to_github returns (None, None, None) and the webhook is
\* answered 500 without a notification POST.
C11_AsStated ==
    \A p \in Procs :
        ( /\ hist[p].handler = "handle_round_1"
          /\ hist[p].failedOps \cap PublishSteps # {}
          /\ HandlerOver(p) ) =>
            /\ loc[p].result = FailureTriple
            /\ Answered(p) /\ status[p] = 500
            /\ hist[p].notifies = 0 /\ hist[p].posts = 0

\* the operations of a request so far, by kind
OpKinds(p) == {hist[p].ops[k][1] : k \in 1..Len(hist[p].ops)}

\* C12: a verified request runs exactly one handler, chosen once from round:
\* handle_round_1 when round is absent or 1, handle_round_2 when round > 1;
\* a Create request never reads or updates file contents and a Modify
\* request never deletes or creates a repository.
C12_OneHandlerByRound ==
    \A p \in Procs :
        (Active(p) /\ pc[p] # "handle_request" /\ Verified(p)) =>
            /\ hist[p].handler =
                IF "round" \in request_data[p].keys /\ request_data[p].round > 1
                THEN "handle_round_2" ELSE "handle_round_1"
            /\ hist[p].handler = "handle_round_1" =>
                /\ OpKinds(p) \cap {"get_contents", "update_file"} = {}
                /\ pc[p] \notin {"u_get_repo", "u_get_html", "u_get_readme", "u_llm",
                                 "u_put_html", "u_refetch", "u_put_readme"}
            /\ hist[p].handler = "handle_round_2" =>
                /\ OpKinds(p) \cap {"delete", "create_repo", "create_file", "enable_pages"} = {}
                /\ hist[p].deletes = 0 /\ hist[p].creates = 0
                /\ pc[p] \notin {"r1_llm", "d_get_repo", "d_delete", "d_create", "d_index",
                                 "d_readme", "d_license", "d_pages", "d_branch"}

C12_Witness ==
    \E p \in Procs :
        /\ Answered(p) /\ status[p] = 200
        /\ hist[p].handler = "handle_round_2"
        /\ request_data[p].round = MaxRound
        /\ "update_file" \in OpKinds(p)

\* the order of the publish operations, with and without an existing repository
PublishOrder(existed) ==
    <<Op("get_repo", "")>>
        \o (IF existed THEN <<Op("delete", "")>> ELSE <<>>)
        \o << Op("create_repo", ""), Op("create_file", "index.html"),
              Op("create_file", "README.md"), Op("create_file", "LICENSE"),
              Op("enable_pages", ""), Op("get_branch", "") >>

StartsWith(s, t) == Len(t) <= Len(s) /\ SubSeq(s, 1, Len(t)) = t

\* C13: in a successful round-1 publish the operations are, in this order,
\* lookup, delete (if found), create repository, commit index.html, commit
\* README.md, commit LICENSE, enable pages, read back the commit; nothing is
\* created before an existing repository was deleted and pages are not
\* enabled before the three files are committed.
C13_PublishOrder ==
    \A p \in Procs :
        hist[p].handler = "handle_round_1" =>
            /\ \E e \in BOOLEAN : StartsWith(PublishOrder(e), hist[p].ops)
            /\ hist[p].pagesReqs > 0 => hist[p].commits = 3
            /\ (hist[p].creates > 0 /\ hist[p].existed) => hist[p].deletes = 1
            /\ RealTriple(loc[p].result) => hist[p].ops = PublishOrder(hist[p].existed)

C13_Witness ==
    \E p \in Procs :
        /\ Answered(p) /\ status[p] = 200
        /\ hist[p].handler = "handle_round_1"
        /\ hist[p].existed
        /\ hist[p].ops = PublishOrder(TRUE)
        /\ repos[repo_name(p)].pages

\* C15: with no other writer, the commit_sha of a successful request is the
\* head of main when the handler returns, and that head holds every file the
\* request wrote: round 1 the three files, round > 1 the new index.html and
\* the new README.md, whose commit it is.
C15_CommitShaIsHead ==
    \A p \in Procs :
        (HandlerOver(p) /\ RealTriple(loc[p].result)) =>
            /\ loc[p].result.commit_sha = repos[repo_name(p)].head
            /\ hist[p].handler = "handle_round_1" =>
                /\ repos[repo_name(p)].files = PublishedFiles(p)
                /\ hist[p].ops[Len(hist[p].ops)] = Op("get_branch", "")
            /\ hist[p].handler = "handle_round_2" =>
                /\ repos[repo_name(p)].files["index.html"] = loc[p].new_html
                /\ repos[repo_name(p)].files["README.md"] = loc[p].new_readme
                /\ hist[p].ops[Len(hist[p].ops)] = Op("update_file", "README.md")
                /\ hist[p].ops[Len(hist[p].ops) - 2] = Op("update_file", "index.html")

C15_Witness ==
    \E p \in Procs :
        /\ Answered(p) /\ status[p] = 200
        /\ hist[p].handler = "handle_round_2"
        /\ loc[p].result.commit_sha = 5
        /\ repos[repo_name(p)].head = 5

\* the index.html commit of a round > 1 request went through and its
\* README.md commit did not
HalfUpdated(p) ==
    /\ hist[p].handler = "handle_round_2"
    /\ Answered(p)
    /\ hist[p].commits = 1

\* C17: when the README.md re-fetch or commit fails after the index.html
\* commit went through, the request is answered 500 without notification
\* and the repository keeps the new index.html with the old README.md.
C17_NotAtomic ==
    \A p \in Procs :
        HalfUpdated(p) =>
            /\ status[p] = 500
            /\ loc[p].result = FailureTriple
            /\ hist[p].notifies = 0 /\ hist[p].posts = 0
            /\ repos[repo_name(p)].files["index.html"] = loc[p].new_html
            /\ Sha(repos[repo_name(p)].files["README.md"]) = loc[p].readme_file
            /\ hist[p].failedOps \cap
                {Op("get_contents", "README.md"), Op("update_file", "README.md")} # {}

C17_Witness ==
    \E p \in Procs :
        /\ HalfUpdated(p)
        /\ status[p] = 500
        /\ Op("update_file", "README.md") \in hist[p].failedOps
        /\ Sha(loc[p].new_html) # loc[p].html_file
        /\ Sha(loc[p].new_readme) # loc[p].readme_file
        /\ repos[repo_name(p)].files["index.html"] = loc[p].new_html

\* a verified request with brief and task and without evaluation_url
NoEvaluationUrl(p) ==
    /\ Active(p) /\ Verified(p)
    /\ Get(request_data[p], "brief") \notin {None, ""}
    /\ Get(request_data[p], "task") \notin {None, ""}
    /\ Get(request_data[p], "evaluation_url") \in {None, ""}

\* C18: evaluation_url is tested only after the handler returned: a verified
\* request with brief and task and without evaluation_url makes no
\* notification POST and, its generation and publish/update having run, is
\* answered 400 while the repository it created or updated stays (500 when
\* the handler itself failed).
C18_UrlCheckedLast ==
    \A p \in Procs :
        NoEvaluationUrl(p) =>
            /\ hist[p].notifies = 0 /\ hist[p].posts = 0
            /\ Answered(p) =>
                status[p] = IF RealTriple(loc[p].result) THEN 400 ELSE 500
            /\ (Answered(p) /\ status[p] = 400) =>
                /\ hist[p].llm = 1
                /\ hist[p].commits >= 2
                /\ Exists(repos, repo_name(p))
                /\ loc[p].result.commit_sha = repos[repo_name(p)].head
                /\ hist[p].handler = "handle_round_1" =>
                    repos[repo_name(p)].files = PublishedFiles(p)
                /\ hist[p].handler = "handle_round_2" =>
                    repos[repo_name(p)].files["index.html"] = loc[p].new_html

C18_Witness ==
    \E p \in Procs :
        /\ NoEvaluationUrl(p)
        /\ Answered(p) /\ status[p] = 400
        /\ hist[p].handler = "handle_round_1"
        /\ hist[p].creates = 1
        /\ repos[repo_name(p)].files = PublishedFiles(p)

\* C20: every external call returning or raising, every received request is
\* eventually answered, with one of 200, 400, 403, 500; the status, once
\* set, is the response of that request and does not change; the Notifier
\* makes at most 5 attempts.
C20_Terminates ==
    /\ \A p \in Procs :
        (pc[p] = "handle_request") ~>
            (pc[p] = "done" /\ status[p] \in {200, 400, 403, 500})
    /\ [][\A p \in Procs :
            /\ status[p] # 0 => (pc[p] = "done" /\ pc'[p] \in {"done", "idle"})
            /\ status'[p] # status[p] => (pc'[p] = "done" \/ pc[p] = "done")]_vars
    /\ [](\A p \in Procs : hist[p].posts <= retries /\ (status[p] = 0 <=> pc[p] # "done"))

C20_Witness ==
    \E p \in Procs :
        /\ Answered(p) /\ status[p] = 200
        /\ hist[p].posts = retries
        /\ hist[p].failed = retries
        /\ hist[p].notify_ret = "False"

\* the index.html of the repository was no longer the one fetched at line 183
\* when the request came to commit its own
HtmlModifiedSinceFetch(p) ==
    /\ hist[p].handler = "handle_round_2"
    /\ "index.html" \in hist[p].stale

\* C14: the index.html commit of a round > 1 request carries the hash fetched
\* at the start of the update; when another writer has changed index.html
\* between that fetch and the commit, the commit is rejected, the failure
\* triple is returned, the request is answered 500 and the other writer's
\* index.html stays.
C14_OptimisticHtmlCommit ==
    \A p \in Procs :
        HtmlModifiedSinceFetch(p) =>
            /\ Answered(p) /\ status[p] = 500
            /\ loc[p].result = FailureTriple
            /\ Op("update_file", "index.html") \in hist[p].failedOps
            /\ hist[p].commits = 0 /\ hist[p].notifies = 0
            /\ hist[p].replaced["index.html"] = NoneT
            /\ repos[repo_name(p)].files["index.html"] \in ExtContents
            /\ repos[repo_name(p)].files["index.html"] # loc[p].new_html

C14_Witness ==
    \E p \in Procs :
        /\ HtmlModifiedSinceFetch(p)
        /\ hist[p].putFault = "ok"
        /\ status[p] = 500
        /\ repos[repo_name(p)].files["index.html"] \in ExtContents

\* the README.md commit of the request was made, the call did not fail on
\* its own, and README.md had not changed since the re-fetch of line 209
ReadmePutUnchangedSinceRefetch(p) ==
    /\ hist[p].handler = "handle_round_2"
    /\ hist[p].ops # <<>>
    /\ hist[p].ops[Len(hist[p].ops)] = Op("update_file", "README.md")
    /\ hist[p].putFault = "ok"
    /\ "README.md" \notin hist[p].stale

\* the README.md the request replaced was not the one it had read at line 184
ReplacedOtherReadme(p) ==
    /\ hist[p].replaced["README.md"] # NoneT
    /\ Sha(hist[p].replaced["README.md"]) # loc[p].readme_file

\* C19: the README.md commit carries the hash re-fetched just before it, so
\* it goes through whenever README.md has not changed since the re-fetch,
\* whatever happened to README.md between the first read and the re-fetch:
\* a change another writer made in between is replaced by the request's
\* README.md without error and the request reports success.
C19_ReadmeOverwrite ==
    \A p \in Procs :
        ReadmePutUnchangedSinceRefetch(p) =>
            /\ Op("update_file", "README.md") \notin hist[p].failedOps
            /\ hist[p].replaced["README.md"] # NoneT
            /\ hist[p].commits = 2
            /\ RealTriple(loc[p].result)
            /\ Answered(p) => status[p] \in {200, 400}
            /\ ReplacedOtherReadme(p) => hist[p].replaced["README.md"] \in ExtContents

C19_Witness ==
    \E p \in Procs :
        /\ ReadmePutUnchangedSinceRefetch(p)
        /\ ReplacedOtherReadme(p)
        /\ Answered(p) /\ status[p] = 200
        /\ hist[p].notifies = 1
        /\ repos[repo_name(p)].files["README.md"] = loc[p].new_readme

\* the request of p returned success while the index.html of the repository
\* is not the page generated for it
ForeignIndex(p) ==
    /\ HandlerOver(p) /\ RealTriple(loc[p].result)
    /\ Exists(repos, repo_name(p))
    /\ repos[repo_name(p)].files["index.html"] # NoneT
    /\ repos[repo_name(p)].files["index.html"] # loc[p].generated_html

\* the request of p was answered 500 though its own calls met no failure
LostTheRace(p) ==
    /\ Answered(p) /\ status[p] = 500
    /\ TruthyT(loc[p].generated_html)
    /\ ~hist[p].injected

\* C16: two round-1 requests for the same task, served at the same time,
\* race: a request can return success, notify and be answered 200 while the
\* repository's index.html is the page generated for the other request, and
\* a request can be answered 500 with no failure of its own; either happens
\* only through the other request's delete and create of the repository.
C16_Race ==
    \A p \in Procs : \A q \in Procs \ {p} :
        /\ ForeignIndex(p) =>
            /\ hist[p].creates = 1 /\ hist[p].commits = 3
            /\ hist[q].deletes = 1 /\ hist[q].creates = 1
            /\ repos[repo_name(p)].owner = q
            /\ repos[repo_name(p)].files["index.html"] = loc[q].generated_html
        /\ (Answered(p) /\ status[p] = 500) =>
            /\ LostTheRace(p)
            /\ hist[q].deletes + hist[q].creates >= 1
            /\ \/ hist[p].failedOps = {Op("get_repo", ""), Op("create_repo", "")}
               \/ /\ hist[p].creates = 1
                  /\ \E f \in Paths :
                        hist[p].failedOps \ {Op("get_repo", "")} = {Op("create_file", f)}
               \/ /\ hist[p].commits = 3
                  /\ hist[p].failedOps \ {Op("get_repo", "")}
                        \in {{Op("get_branch", "")},
                             {Op("enable_pages", ""), Op("get_branch", "")}}
        /\ pc[q] = "idle" => (Answered(p) => status[p] = 200)

C16_Witness ==
    \E p \in Procs : \E q \in Procs \ {p} :
        /\ ForeignIndex(p)
        /\ Answered(p) /\ status[p] = 200
        /\ hist[p].notifies = 1 /\ hist[p].posts >= 1
        /\ brief(p) # brief(q)
        /\ repos[repo_name(p)].files["index.html"] = loc[q].generated_html
        /\ LostTheRace(q)

\* a request answered 500 because the other request created the repository
\* first, or deleted the one it was committing to
LostToCreate(p) ==
    LostTheRace(p) /\ Op("create_repo", "") \in hist[p].failedOps

LostToDelete(p) ==
    /\ LostTheRace(p)
    /\ Op("create_file", "README.md") \in hist[p].failedOps
    /\ ~Exists(repos, repo_name(p))

====
